---- MODULE Spec2Model ----
(***************************************************************************)
(* Model of wbso.py: a command-line work-session log.  Every run of the    *)
(* tool loads the pickled Sessions object, executes one command branch of  *)
(* __main__, prints, and saves the object again unless an exception ended  *)
(* the process first.                                                      *)
(*                                                                         *)
(* Conventions.  Python's None is the empty tuple <<>> and a present value *)
(* v is <<v>>.  List indices are Python's (0-based, negative counts from   *)
(* the end); the TLA+ sequence position of Python index k is k + 1.        *)
(* A datetime is a number of clock ticks; a day has TicksPerDay ticks.     *)
(* All clock reads of one run return the same tick.  The script runs under *)
(* `python`, which is Python 2 or Python 3 (py3, p3), fixed per machine.   *)
(***************************************************************************)
EXTENDS Integers, Sequences, FiniteSets

VARIABLES
    pc,             \* "idle": no process; "done": a run at its last statement
    py3,            \* the installed interpreter: TRUE Python 3, FALSE Python 2
    now,            \* the wall clock
    file,           \* wbso_log.pickle: absent, empty, or a pickled Sessions
    loaded,         \* the Sessions object load() gave the run
    sessions,       \* SESSIONS.sessions in memory at the end of the run
    open_session,   \* SESSIONS.open_session in memory at the end of the run
    args,           \* the run's arguments
    exc,            \* the exception that ended the run, "" if none
    out,            \* what the run printed
    saved           \* whether the run reached save(SESSIONS)

vars == <<pc, py3, now, file, loaded, sessions, open_session, args, exc, out, saved>>

----------------------------------------------------------------------------
(* Bounds *)

MaxSessions == 3    \* no run appends to a ledger that already holds this many
MaxDay == 1         \* the clock runs over days 0..MaxDay
MaxTod == 0         \* times of day are 0..MaxTod

MaxMonth == 1       \* rendered timestamps lie in months 0..MaxMonth
DaysPerMonth == 3   \* a month has the days 1..DaysPerMonth

TicksPerDay == MaxTod + 1
MaxNow == (MaxDay + 1) * TicksPerDay - 1
Descriptions == {"a", "b"}

----------------------------------------------------------------------------
(* Values *)

None == <<>>
Some(v) == <<v>>
Val(o) == o[1]

Session(start, end, description) ==
    [start |-> start, end |-> end, description |-> description]

Sessions(ss, open) == [sessions |-> ss, open_session |-> open]

\* A time argument: absent, "now", "last", "HH:MM" (tod = the time of day), or
\* any other string.
Tok(kind, tod) == [kind |-> kind, tod |-> tod]
NoTok == Tok("none", 0)
TimeTokens ==
    {Tok("now", 0), Tok("last", 0), Tok("bad", 0)}
        \cup {Tok("hhmm", m) : m \in 0..MaxTod}
OptTimeTokens == TimeTokens \cup {NoTok}

\* An INDEX argument after int(): any integer the list may accept or reject.
IndexArgs == (0 - MaxSessions) .. MaxSessions
NoIndex == None
OptIndexArgs == {Some(i) : i \in IndexArgs} \cup {NoIndex}

Day(t) == t \div TicksPerDay

\* The fields of a datetime that strftime and .day read.
Tod(t) == t % TicksPerDay
Month(t) == Day(t) \div DaysPerMonth
DayOfMonth(t) == (Day(t) % DaysPerMonth) + 1
Weekday(t) == Day(t) % 7

\* list[k] in Python: valid for -len <= k < len.
ValidIndex(ss, k) == (0 - Len(ss)) <= k /\ k < Len(ss)
Pos(ss, k) == IF k >= 0 THEN k + 1 ELSE Len(ss) + k + 1

DelAt(ss, p) == [i \in 1..(Len(ss) - 1) |-> IF i < p THEN ss[i] ELSE ss[i + 1]]

----------------------------------------------------------------------------
(* class Sessions.  A method is an operator from the object L (and its      *)
(* arguments) to a record: L, the object afterwards; exc, the exception     *)
(* raised ("" if none); plus the method's return value where it has one.    *)

\* session.end > latest_end.  datetime refuses an ordering against None on
\* both interpreters; None > None is False on Python 2 and a TypeError on
\* Python 3.
EndGreater(e, latest, p3) ==
    IF e # None /\ latest # None
    THEN [exc |-> "", val |-> Val(e) > Val(latest)]
    ELSE IF e = None /\ latest = None /\ ~p3
    THEN [exc |-> "", val |-> FALSE]
    ELSE [exc |-> "TypeError", val |-> FALSE]

RECURSIVE LatestEndLoop(_, _, _, _)
LatestEndLoop(ss, i, latest_end, p3) ==
    IF i > Len(ss)
    THEN [exc |-> "", val |-> latest_end]
    ELSE LET c == EndGreater(ss[i].end, latest_end, p3) IN
         IF c.exc # ""
         THEN [exc |-> c.exc, val |-> None]
         ELSE LatestEndLoop(ss, i + 1, IF c.val THEN ss[i].end ELSE latest_end, p3)

get_last_end_time(ss, p3) ==
    IF Len(ss) = 0
    THEN [exc |-> "", val |-> None]
    ELSE LatestEndLoop(ss, 2, ss[1].end, p3)

time_to_datetime(ss, tok, t, p3) ==
    CASE tok.kind = "last" -> get_last_end_time(ss, p3)
      [] tok.kind = "now"  -> [exc |-> "", val |-> Some(t)]
      [] tok.kind = "hhmm" -> [exc |-> "", val |-> Some(Day(t) * TicksPerDay + tok.tod)]
      [] OTHER             -> [exc |-> "ValueError", val |-> None]

\* `if start:` / `if end_time:` -- an absent argument means datetime.now().
TimeOrNow(ss, tok, t, p3) ==
    IF tok.kind = "none"
    THEN [exc |-> "", val |-> Some(t)]
    ELSE time_to_datetime(ss, tok, t, p3)

\* The exception of start() on an open ledger: the message formats
\* self.get_open(), which is an IndexError when open_session is no index of
\* the list; "{:s}".format(object) is a TypeError on Python 3; otherwise the
\* ValueError is raised.
AlreadyOpenExc(L, p3) ==
    IF ~ValidIndex(L.sessions, Val(L.open_session)) THEN "IndexError"
    ELSE IF p3 THEN "TypeError"
    ELSE "ValueError"

\* Mutant of AppendedIndex: the length instead of the last index.
AppendedIndex_Length(ss) == Len(ss)

AppendedIndex(ss) == Len(ss) - 1

\* Mutant of start: the open-session check is missing.
start_Unchecked(L, description, tok, t, p3) ==
    LET r == TimeOrNow(L.sessions, tok, t, p3) IN
    IF r.exc # ""
    THEN [L |-> L, exc |-> r.exc]
    ELSE LET ss == Append(L.sessions, Session(r.val, None, description)) IN
         [L |-> Sessions(ss, Some(Len(ss) - 1)), exc |-> ""]

start(L, description, tok, t, p3) ==
    IF L.open_session # None
    THEN [L |-> L, exc |-> AlreadyOpenExc(L, p3)]
    ELSE LET r == TimeOrNow(L.sessions, tok, t, p3) IN
         IF r.exc # ""
         THEN [L |-> L, exc |-> r.exc]
         ELSE LET ss == Append(L.sessions, Session(r.val, None, description)) IN
              [L |-> Sessions(ss, Some(AppendedIndex(ss))), exc |-> ""]

ClosedEnd(r) == r.val

end(L, tok, t, p3) ==
    IF L.open_session = None
    THEN [L |-> L, exc |-> "", ret |-> FALSE]
    ELSE IF ~ValidIndex(L.sessions, Val(L.open_session))
    THEN [L |-> L, exc |-> "IndexError", ret |-> FALSE]
    ELSE LET r == TimeOrNow(L.sessions, tok, t, p3)
             p == Pos(L.sessions, Val(L.open_session))
         IN  IF r.exc # ""
             THEN [L |-> L, exc |-> r.exc, ret |-> FALSE]
             ELSE [L |-> Sessions([L.sessions EXCEPT ![p].end = ClosedEnd(r)], None),
                   exc |-> "", ret |-> TRUE]

log(L, start_tok, end_tok, description, t, p3) ==
    LET s == time_to_datetime(L.sessions, start_tok, t, p3) IN
    IF s.exc # ""
    THEN [L |-> L, exc |-> s.exc]
    ELSE LET e == time_to_datetime(L.sessions, end_tok, t, p3) IN
         IF e.exc # ""
         THEN [L |-> L, exc |-> e.exc]
         ELSE [L |-> Sessions(Append(L.sessions, Session(s.val, e.val, description)),
                              L.open_session),
               exc |-> ""]

\* The open_session left by remove(index); the comparisons are with the
\* index as given, not with the position it denotes.
OpenAfterRemove(open, index) ==
    IF open = None THEN None
    ELSE IF Val(open) = index THEN None
    ELSE IF Val(open) > index THEN Some(Val(open) - 1)
    ELSE open

remove(L, index) ==
    IF ~ValidIndex(L.sessions, index)
    THEN [L |-> L, exc |-> "IndexError"]
    ELSE [L |-> Sessions(DelAt(L.sessions, Pos(L.sessions, index)),
                         OpenAfterRemove(L.open_session, index)),
          exc |-> ""]

\* Mutant of clear: the sessions go, open_session stays.
clear_KeepsOpen(L) == Sessions(<<>>, L.open_session)

clear(L) == Sessions(<<>>, None)

\* Session.__str__ reads self.start.strftime: no rendering for a start of None.
SessionStrExc(s) == IF s.start = None THEN "AttributeError" ELSE ""

\* strftime with the three formats of Session.__str__.
start_time_format(t) ==
    [weekday |-> Weekday(t), day |-> DayOfMonth(t), month |-> Month(t), time |-> Tod(t)]
end_time_format(t) ==
    [kind |-> "time", day |-> 0, month |-> 0, time |-> Tod(t)]
next_day_end_time_format(t) ==
    [kind |-> "date", day |-> DayOfMonth(t), month |-> Month(t), time |-> Tod(t)]
OpenEnd == [kind |-> "...", day |-> 0, month |-> 0, time |-> 0]

\* `if self.start.day != self.end.day`: .day is the day of the month.
NotSameDay(self_start, self_end) == DayOfMonth(self_start) # DayOfMonth(self_end)

\* Session.__str__ of a session with a start: "<start> - <end>: <description>".
SessionStr(s) ==
    [start |-> start_time_format(Val(s.start)),
     end |-> IF s.end = None THEN OpenEnd
             ELSE IF NotSameDay(Val(s.start), Val(s.end))
             THEN next_day_end_time_format(Val(s.end))
             ELSE end_time_format(Val(s.end)),
     description |-> s.description]

\* Sessions.__str__: one numbered line per session, in list order.
SessionsStrExc(ss) ==
    IF \E i \in 1..Len(ss) : SessionStrExc(ss[i]) # "" THEN "AttributeError" ELSE ""

SessionsStr(ss) == [i \in 1..Len(ss) |-> [index |-> i - 1, session |-> ss[i]]]

----------------------------------------------------------------------------
(* Printing.  A run's state R is [L, exc, msgs, lines]: the object, the     *)
(* exception that ended the run ("" while it is still running), the         *)
(* messages printed so far and the export's data lines.                     *)

Msg(text) == [text |-> text, n |-> 0]
MsgN(text, n) == [text |-> text, n |-> n]
PrintedSessions == Msg("<SESSIONS>")
PrintedSession == Msg("<session>")

Run(L, e, msgs, lines) == [L |-> L, exc |-> e, msgs |-> msgs, lines |-> lines]

Raise(R, e) == IF R.exc # "" THEN R ELSE [R EXCEPT !.exc = e]

Say(R, m) == IF R.exc # "" THEN R ELSE [R EXCEPT !.msgs = Append(@, m)]

\* print(SESSIONS)
PrintSessions(R) ==
    IF R.exc # "" THEN R
    ELSE IF SessionsStrExc(R.L.sessions) # ""
    THEN Raise(R, SessionsStrExc(R.L.sessions))
    ELSE Say(R, PrintedSessions)

\* print(session)
PrintSession(R, s) ==
    IF R.exc # "" THEN R
    ELSE IF SessionStrExc(s) # "" THEN Raise(R, SessionStrExc(s))
    ELSE Say(R, PrintedSession)

----------------------------------------------------------------------------
(* The branches of __main__, each from the loaded object L (and what load   *)
(* printed, said) to the run's state when the branch ends.                  *)

MainClose(L, said, a, t, p3) ==
    LET r == end(L, a.ENDTIME, t, p3)
        R == Run(r.L, r.exc, said, <<>>)
    IN  PrintSessions(IF r.ret THEN R ELSE Say(R, Msg("No session to close.")))

MainDelete(L, said, a) ==
    LET r == remove(L, Val(a.INDEX)) IN
    PrintSessions(Say(Run(r.L, r.exc, said, <<>>), Msg("Sessions:")))

MainCancel(L, said) ==
    IF L.open_session # None
    THEN LET r == remove(L, Val(L.open_session)) IN
         PrintSessions(Run(r.L, r.exc, said, <<>>))
    ELSE PrintSessions(Say(Run(L, "", said, <<>>), Msg("No session to cancel.")))

MainClear(L, said) ==
    LET nr_sessions == Len(L.sessions) IN
    Say(Run(clear(L), "", said, <<>>), MsgN("sessions cleared.", nr_sessions))

DefaultIndex == 0 - 1

SessionIndex(a) == IF a.INDEX # NoIndex THEN Val(a.INDEX) ELSE DefaultIndex

\* Mutant of AmendedSession: the amended session is reopened.
AmendedSession_Reopened(s, description) ==
    [s EXCEPT !.description = description, !.end = None]

AmendedSession(s, description) == [s EXCEPT !.description = description]

MainAmend(L, said, a) ==
    LET session_index == SessionIndex(a) IN
    IF ~ValidIndex(L.sessions, session_index)
    THEN Run(L, "IndexError", said, <<>>)
    ELSE LET p == Pos(L.sessions, session_index)
             ss == [L.sessions EXCEPT ![p] = AmendedSession(@, a.DESCRIPTION)]
         IN  PrintSession(
                 Say(Run(Sessions(ss, L.open_session), "", said, <<>>),
                     Msg("Session amended:")),
                 ss[p])

\* "Log / open": with an END the session is logged, otherwise it is started.
LogOrOpen(L, said, a, description, t, p3) ==
    LET r == IF a.END.kind # "none"
             THEN log(L, a.START, a.END, description, t, p3)
             ELSE start(L, description, a.START, t, p3)
    IN  PrintSessions(Run(r.L, r.exc, said, <<>>))

MainDescription(L, said, a, t, p3) == LogOrOpen(L, said, a, a.DESCRIPTION, t, p3)

\* Mutant of ResumedDescription: always the first session's description.
ResumedDescription_First(L, session_index) == L.sessions[1].description

ResumedDescription(L, session_index) ==
    L.sessions[Pos(L.sessions, session_index)].description

MainResume(L, said, a, t, p3) ==
    IF Len(L.sessions) = 0
    THEN Say(Run(L, "", said, <<>>), Msg("No session to resume."))
    ELSE LET session_index == SessionIndex(a) IN
         IF ~ValidIndex(L.sessions, session_index)
         THEN Run(L, "IndexError", said, <<>>)
         ELSE LogOrOpen(L, said, a, ResumedDescription(L, session_index), t, p3)

\* _duration_as_hours: end - start, in ticks.  None - datetime is a TypeError.
DurationExc(s) == IF s.end = None THEN "TypeError" ELSE ""
Duration(s) == Val(s.end) - Val(s.start)

\* session.start.strftime("%Y-%m-%d"): the calendar date of the start.
StartDate(s) == Day(Val(s.start))

\* sess_durations is a dict of dicts; it is modelled as the sequence of its
\* items in insertion order, [date, descs], descs the sequence of the inner
\* dict's items [description, hours].
HasDate(d, date) == \E i \in 1..Len(d) : d[i].date = date
DateAt(d, date) == CHOOSE i \in 1..Len(d) : d[i].date = date
HasDesc(e, description) == \E j \in 1..Len(e) : e[j].description = description
DescAt(e, description) == CHOOSE j \in 1..Len(e) : e[j].description = description

AddDuration(d, date, description, duration) ==
    LET d1 == IF HasDate(d, date) THEN d
              ELSE Append(d, [date |-> date, descs |-> <<>>])
        i  == DateAt(d1, date)
        e1 == IF HasDesc(d1[i].descs, description) THEN d1[i].descs
              ELSE Append(d1[i].descs, [description |-> description, hours |-> 0])
        j  == DescAt(e1, description)
    IN  [d1 EXCEPT ![i].descs = [e1 EXCEPT ![j].hours = @ + duration]]

RECURSIVE ExportLoop(_, _, _)
ExportLoop(ss, k, d) ==
    IF k > Len(ss) THEN [exc |-> "", d |-> d]
    ELSE IF ss[k].start = None THEN [exc |-> "AttributeError", d |-> d]
    ELSE IF DurationExc(ss[k]) # "" THEN [exc |-> DurationExc(ss[k]), d |-> d]
    ELSE ExportLoop(ss, k + 1,
                    AddDuration(d, StartDate(ss[k]), ss[k].description, Duration(ss[k])))

RECURSIVE ExportLines(_, _)
ExportLines(d, i) ==
    IF i > Len(d) THEN <<>>
    ELSE [j \in 1..Len(d[i].descs) |->
             [date |-> d[i].date,
              description |-> d[i].descs[j].description,
              hours |-> d[i].descs[j].hours]]
         \o ExportLines(d, i + 1)

\* The open-session report of --export; the branch goes on to the
\* aggregation afterwards.
ExportOpenReport(R) ==
    IF R.L.open_session # None
    THEN PrintSessions(Say(R, Msg("Cannot export while a session is open.")))
    ELSE R

MainExport(L, said) ==
    LET R1 == ExportOpenReport(Run(L, "", said, <<>>))
        R2 == IF Len(L.sessions) = 0 THEN Say(R1, Msg("No sessions.")) ELSE R1
        agg == ExportLoop(L.sessions, 1, <<>>)
    IN  IF R2.exc # "" THEN R2
        ELSE IF agg.exc # "" THEN Raise(R2, agg.exc)
        ELSE [R2 EXCEPT !.lines = ExportLines(agg.d, 1)]

\* `if SESSIONS.open_session:` -- None and 0 are both false.
Truthy(open) == open # None /\ Val(open) # 0

MainReport(L, said) ==
    LET R0 == Run(L, "", said, <<>>)
        R1 == IF Truthy(L.open_session)
              THEN IF ~ValidIndex(L.sessions, Val(L.open_session))
                   THEN Raise(R0, "IndexError")
                   ELSE LET s == L.sessions[Pos(L.sessions, Val(L.open_session))] IN
                        IF SessionStrExc(s) # "" THEN Raise(R0, SessionStrExc(s))
                        ELSE Say(R0, Msg("Open session:"))
              ELSE R0
    IN  IF Len(L.sessions) = 0
        THEN Say(R1, Msg("No sessions."))
        ELSE PrintSessions(Say(R1, Msg("Sessions:")))

Main(L, said, a, t, p3) ==
    CASE a.op = "close"  -> MainClose(L, said, a, t, p3)
      [] a.op = "delete" -> MainDelete(L, said, a)
      [] a.op = "cancel" -> MainCancel(L, said)
      [] a.op = "clear"  -> MainClear(L, said)
      [] a.op = "amend"  -> MainAmend(L, said, a)
      [] a.op = "description" -> MainDescription(L, said, a, t, p3)
      [] a.op = "resume" -> MainResume(L, said, a, t, p3)
      [] a.op = "export" -> MainExport(L, said)
      [] OTHER           -> MainReport(L, said)

----------------------------------------------------------------------------
(* Storage *)

NoFile == [kind |-> "absent", L |-> Sessions(<<>>, None)]
EmptyFile == [kind |-> "empty", L |-> Sessions(<<>>, None)]
Pickle(L) == [kind |-> "pickle", L |-> L]

\* load(): a missing file is created empty and a new Sessions returned; an
\* empty file is no pickle (EOFError).
load(f) ==
    CASE f.kind = "absent" ->
            [exc |-> "", L |-> Sessions(<<>>, None), file |-> EmptyFile,
             msgs |-> <<Msg("Created new log file.")>>]
      [] f.kind = "empty"  ->
            [exc |-> "EOFError", L |-> Sessions(<<>>, None), file |-> f, msgs |-> <<>>]
      [] OTHER             ->
            [exc |-> "", L |-> f.L, file |-> f, msgs |-> <<>>]

\* Mutant of ReachesSave: save() runs whatever happened before it.
ReachesSave_Always(R) == TRUE

\* save() is the last statement of __main__: reached when nothing raised.
ReachesSave(R) == R.exc = ""

save(L) == Pickle(L)

----------------------------------------------------------------------------
(* One run of the tool: load, the branch chosen by the arguments, save.     *)
(* pc = "done" is the process at its end, with SESSIONS as the run left it  *)
(* in memory; Exit ends the process, and time passes until the next run.    *)

Args(op, index, description, start_tok, end_tok, endtime) ==
    [op |-> op, INDEX |-> index, DESCRIPTION |-> description,
     START |-> start_tok, END |-> end_tok, ENDTIME |-> endtime]

NoArgs == Args("report", NoIndex, "", NoTok, NoTok, NoTok)

NoOutput == [msgs |-> <<>>, lines |-> <<>>]

Clock == {t \in {now, now + 1} : t <= MaxNow}

\* The sessions held by the file a run starts from.
Stored == IF file.kind = "pickle" THEN file.L ELSE Sessions(<<>>, None)
HasRoom == pc = "idle" /\ Len(Stored.sessions) < MaxSessions

Invoke(a) ==
    /\ pc = "idle"
    /\ \E ld \in {load(file)} :
       \E R \in {IF ld.exc # "" THEN Run(ld.L, ld.exc, ld.msgs, <<>>)
                 ELSE Main(ld.L, ld.msgs, a, now, py3)} :
          /\ pc' = "done"
          /\ py3' = py3
          /\ now' = now
          /\ args' = a
          /\ loaded' = ld.L
          /\ sessions' = R.L.sessions
          /\ open_session' = R.L.open_session
          /\ exc' = R.exc
          /\ out' = [msgs |-> R.msgs, lines |-> R.lines]
          /\ saved' = ReachesSave(R)
          /\ file' = IF ReachesSave(R) THEN save(R.L) ELSE ld.file

Close ==
    /\ pc = "idle"
    /\ \E tok \in OptTimeTokens :
        Invoke(Args("close", NoIndex, "", NoTok, NoTok, tok))

Delete ==
    /\ pc = "idle"
    /\ \E i \in IndexArgs :
        Invoke(Args("delete", Some(i), "", NoTok, NoTok, NoTok))

Cancel ==
    /\ pc = "idle"
    /\ Invoke(Args("cancel", NoIndex, "", NoTok, NoTok, NoTok))

Clear ==
    /\ pc = "idle"
    /\ Invoke(Args("clear", NoIndex, "", NoTok, NoTok, NoTok))

Amend ==
    /\ pc = "idle"
    /\ \E i \in OptIndexArgs, d \in Descriptions :
        Invoke(Args("amend", i, d, NoTok, NoTok, NoTok))

\* wbso.py [START] DESCRIPTION
Start ==
    /\ HasRoom
    /\ \E d \in Descriptions, tok \in OptTimeTokens :
        Invoke(Args("description", NoIndex, d, tok, NoTok, NoTok))

\* wbso.py START END DESCRIPTION
Log ==
    /\ HasRoom
    /\ \E d \in Descriptions, s \in TimeTokens, e \in TimeTokens :
        Invoke(Args("description", NoIndex, d, s, e, NoTok))

\* wbso.py [START [END]] --resume [INDEX]
Resume ==
    /\ HasRoom
    /\ \E i \in OptIndexArgs, s \in OptTimeTokens, e \in OptTimeTokens :
        /\ e.kind # "none" => s.kind # "none"
        /\ Invoke(Args("resume", i, "", s, e, NoTok))

Export ==
    /\ pc = "idle"
    /\ Invoke(Args("export", NoIndex, "", NoTok, NoTok, NoTok))

Report ==
    /\ pc = "idle"
    /\ Invoke(NoArgs)

Exit ==
    /\ pc = "done"
    /\ pc' = "idle"
    /\ now' \in Clock
    /\ args' = NoArgs
    /\ loaded' = Sessions(<<>>, None)
    /\ sessions' = <<>>
    /\ open_session' = None
    /\ exc' = ""
    /\ out' = NoOutput
    /\ saved' = FALSE
    /\ UNCHANGED <<py3, file>>

Init ==
    /\ pc = "idle"
    /\ py3 \in BOOLEAN
    /\ now = 0
    /\ file = NoFile
    /\ loaded = Sessions(<<>>, None)
    /\ sessions = <<>>
    /\ open_session = None
    /\ args = NoArgs
    /\ exc = ""
    /\ out = NoOutput
    /\ saved = FALSE

Next ==
    \/ Close
    \/ Delete
    \/ Cancel
    \/ Clear
    \/ Amend
    \/ Start
    \/ Log
    \/ Resume
    \/ Export
    \/ Report
    \/ Exit

Spec == Init /\ [][Next]_vars

----------------------------------------------------------------------------
(* The rendering of one session, on its own: any session with a start, its   *)
(* timestamps anywhere in the months 0..MaxMonth, is rendered once.          *)

RenderClock == 0 .. ((MaxMonth + 1) * DaysPerMonth * TicksPerDay - 1)

RenderInit ==
    /\ pc = "idle"
    /\ py3 \in BOOLEAN
    /\ now = 0
    /\ file = NoFile
    /\ loaded = Sessions(<<>>, None)
    /\ \E t \in RenderClock, description \in Descriptions :
       \E e \in {Some(u) : u \in RenderClock} \cup {None} :
          /\ sessions = <<Session(Some(t), e, description)>>
          /\ open_session = IF e = None THEN Some(0) ELSE None
    /\ args = NoArgs
    /\ exc = ""
    /\ out = NoOutput
    /\ saved = FALSE

\* str(session)
Render ==
    /\ pc = "idle"
    /\ pc' = "rendered"
    /\ out' = [msgs |-> <<SessionStr(sessions[1])>>, lines |-> <<>>]
    /\ UNCHANGED <<py3, now, file, loaded, sessions, open_session, args, exc, saved>>

RenderNext == Render

RenderSpec == RenderInit /\ [][RenderNext]_vars

----------------------------------------------------------------------------
(* Vocabulary of the properties.  They are stated of a run at its end        *)
(* (pc = "done"): loaded is the ledger before the command, sessions and      *)
(* open_session the ledger after it, Stored the ledger in the file.          *)

\* The run got past load().
Ran == pc = "done" /\ exc # "EOFError"

Before == loaded
After == Sessions(sessions, open_session)

IsOpen(L) == L.open_session # None
IsIdle(L) == L.open_session = None

StartRun == Ran /\ args.op = "description" /\ args.END.kind = "none"
CloseRun == Ran /\ args.op = "close"
DeleteRun == Ran /\ args.op = "delete"
ExportRun == Ran /\ args.op = "export"
ResumeRun == Ran /\ args.op = "resume"

Said(text) == \E i \in 1..Len(out.msgs) : out.msgs[i].text = text

\* The time argument is one the ledger resolves: absent, "now", "HH:MM", or
\* "last" where the scan for the last end runs through.
Resolves(ss, tok) ==
    \/ tok.kind \in {"none", "now", "hhmm"}
    \/ tok.kind = "last" /\ get_last_end_time(ss, py3).exc = ""

\* What a resolving time argument resolves to at the time of the run.
Resolved(ss, tok) ==
    CASE tok.kind \in {"none", "now"} -> Some(now)
      [] tok.kind = "hhmm" -> Some(Day(now) * TicksPerDay + tok.tod)
      [] OTHER -> get_last_end_time(ss, py3).val

Unchanged == After = Before

\* After is Before with exactly one session appended.
AppendedOne ==
    /\ Len(sessions) = Len(Before.sessions) + 1
    /\ SubSeq(sessions, 1, Len(Before.sessions)) = Before.sessions

NewSession == sessions[Len(sessions)]

AbsentEnds(ss) == {i \in 1..Len(ss) : ss[i].end = None}

----------------------------------------------------------------------------
(* C1 *)

\* The ledger invariant of C1 for a ledger L.
LedgerInvariant(L) ==
    /\ Cardinality(AbsentEnds(L.sessions)) <= 1
    /\ IsOpen(L) =>
          /\ ValidIndex(L.sessions, Val(L.open_session))
          /\ L.sessions[Pos(L.sessions, Val(L.open_session))].end = None
    /\ \A i \in 1..Len(L.sessions) :
          (IsIdle(L) \/ ~ValidIndex(L.sessions, Val(L.open_session))
                     \/ i # Pos(L.sessions, Val(L.open_session)))
              => L.sessions[i].end # None

\* C1: after any sequence of ledger operations from an empty ledger, at most
\* one session has an absent end; if open_index is set, the session it names
\* has an absent end; every other session has its end present.  Stated of the
\* ledger every run leaves in the file.
C1_StoredLedgerInvariant == LedgerInvariant(Stored)

----------------------------------------------------------------------------
(* C2 *)

\* C2: start(description, start_time?) invoked while the ledger is Open fails,
\* and the failed call leaves the ledger as it was: sessions and open_index
\* in memory are those loaded, nothing is saved, and the file still holds them.
C2_StartWhileOpenFails ==
    (StartRun /\ IsOpen(Before)) =>
        /\ exc \in {"ValueError", "TypeError", "IndexError"}
        /\ Unchanged
        /\ ~saved
        /\ file = Pickle(Before)

C2_Witness ==
    /\ StartRun
    /\ IsOpen(Before)
    /\ Len(Before.sessions) = 2
    /\ exc # ""

----------------------------------------------------------------------------
(* C3 *)

\* C3: start(description, start_time?) invoked while the ledger is Idle, with
\* a start_time that resolves, appends exactly one session at the end, with
\* absent end and the given description, leaves the earlier sessions as they
\* were, and sets open_index to the index of the new last entry.
C3_StartWhenIdleOpens ==
    (StartRun /\ IsIdle(Before) /\ Resolves(Before.sessions, args.START)) =>
        /\ AppendedOne
        /\ NewSession.end = None
        /\ NewSession.description = args.DESCRIPTION
        /\ NewSession.start = Resolved(Before.sessions, args.START)
        /\ open_session = Some(Len(sessions) - 1)

C3_Witness ==
    /\ StartRun
    /\ IsIdle(Before)
    /\ Len(Before.sessions) = 2
    /\ IsOpen(After)
    /\ saved

----------------------------------------------------------------------------
(* C4 *)

\* C4: close(end_time?) returns true exactly when the ledger was Open; the
\* formerly open session's end then becomes present (the resolved end_time)
\* and the ledger Idle.  On an Idle ledger close returns false and changes
\* nothing.  (close returned false: the run said "No session to close.")
C4_CloseSetsEnd ==
    CloseRun =>
        /\ (IsOpen(Before) /\ Resolves(Before.sessions, args.ENDTIME)
               /\ ValidIndex(Before.sessions, Val(Before.open_session))) =>
              /\ ~Said("No session to close.")
              /\ IsIdle(After)
              /\ Len(sessions) = Len(Before.sessions)
              /\ sessions[Pos(sessions, Val(Before.open_session))].end # None
        /\ IsIdle(Before) =>
              /\ Said("No session to close.")
              /\ Unchanged

----------------------------------------------------------------------------
(* C5 *)

\* The position (0-based) of the session that list index k names.
Position(ss, k) == Pos(ss, k) - 1

\* C5: after a delete(i) the ledger accepts, open_index is absent if the
\* removed session was the open one, one less if the removed session was at
\* a lower position than the open one, and unchanged otherwise.
C5_DeleteTracksOpen ==
    (DeleteRun /\ exc # "IndexError" /\ IsOpen(Before)) =>
        LET removed == Position(Before.sessions, Val(args.INDEX))
            open == Val(Before.open_session)
        IN  open_session = IF open = removed THEN None
                           ELSE IF removed < open THEN Some(open - 1)
                           ELSE Some(open)

----------------------------------------------------------------------------
(* C6 *)

\* C6: export requested while a session is open is reported and skipped: no
\* data line is emitted and the run ends as a reported no-op, not in an
\* exception.
C6_ExportWhileOpenSkipped ==
    (ExportRun /\ IsOpen(Before)) =>
        /\ Said("Cannot export while a session is open.")
        /\ out.lines = <<>>
        /\ exc = ""

----------------------------------------------------------------------------
(* C7 *)

Keys(ss) == {<<Day(Val(ss[i].start)), ss[i].description>> : i \in 1..Len(ss)}

RECURSIVE SumFor(_, _, _)
SumFor(ss, key, i) ==
    IF i > Len(ss) THEN 0
    ELSE (IF <<Day(Val(ss[i].start)), ss[i].description>> = key
          THEN Val(ss[i].end) - Val(ss[i].start) ELSE 0)
         + SumFor(ss, key, i + 1)

\* The lines are one per (date, description) of ss, each with the sum of the
\* durations of the sessions of that date and description.
OneLinePerKey(lines, ss) ==
    /\ Len(lines) = Cardinality(Keys(ss))
    /\ \A key \in Keys(ss) :
          \E j \in 1..Len(lines) :
              /\ <<lines[j].date, lines[j].description>> = key
              /\ lines[j].hours = SumFor(ss, key, 1)

\* C7: export on an Idle ledger emits exactly one line per distinct (date of
\* start, description) among the sessions, carrying the sum of end - start
\* over the sessions of that date and description.
C7_ExportOneLinePerKey ==
    (ExportRun /\ IsIdle(Before)) =>
        /\ exc = ""
        /\ OneLinePerKey(out.lines, Before.sessions)

\* The aggregation itself: an export that ran through emitted one line per
\* (date, description) with the summed duration.
ExportAggregates ==
    (ExportRun /\ exc = "") => OneLinePerKey(out.lines, Before.sessions)

----------------------------------------------------------------------------
(* C8 *)

PresentEnds(ss) == {Val(ss[i].end) : i \in {j \in 1..Len(ss) : ss[j].end # None}}
Maximum(S) == CHOOSE m \in S : \A x \in S : x <= m

\* C8: in any reachable ledger, "last" resolves to the maximum end among all
\* sessions, whatever their order and also when a session of the ledger is
\* the open one with absent end.  Stated of the ledger in the file.
C8_LastIsMaximumEnd ==
    PresentEnds(Stored.sessions) # {} =>
        get_last_end_time(Stored.sessions, py3) =
            [exc |-> "", val |-> Some(Maximum(PresentEnds(Stored.sessions)))]

----------------------------------------------------------------------------
(* C9 *)

ResumeIndex == IF args.INDEX = NoIndex THEN 0 - 1 ELSE Val(args.INDEX)

\* The resume run that reaches "Log / open": a non-empty ledger and an index
\* of the list.
ResumeCall ==
    /\ ResumeRun
    /\ Len(Before.sessions) > 0
    /\ ValidIndex(Before.sessions, ResumeIndex)

Original == Before.sessions[Pos(Before.sessions, ResumeIndex)]

\* C9: resume(index, start_time?, end_time?) on a non-empty ledger leaves the
\* sessions it found unchanged and adds at most one; the new session has the
\* description of sessions[index] (index -1, the last, by default) and its
\* start and end are what the time arguments (or the current time) resolve
\* to.  With end_time it acts as log: whenever both times resolve the session
\* is added, closed, and open_index stays; otherwise as start: on an Idle
\* ledger with a start_time that resolves the session is added and becomes
\* the open one, on an Open ledger the call fails and nothing is added.
C9_ResumeDuplicatesDescription ==
    ResumeCall =>
        /\ Unchanged \/ AppendedOne
        /\ AppendedOne =>
              /\ NewSession.description = Original.description
              /\ NewSession.start = Resolved(Before.sessions, args.START)
              /\ NewSession.end = IF args.END.kind = "none" THEN None
                                  ELSE Resolved(Before.sessions, args.END)
        /\ args.END.kind # "none" =>
              /\ open_session = Before.open_session
              /\ (Resolves(Before.sessions, args.START)
                    /\ Resolves(Before.sessions, args.END)) => AppendedOne
        /\ args.END.kind = "none" =>
              /\ IsOpen(Before) => (Unchanged /\ exc # "")
              /\ (IsIdle(Before) /\ Resolves(Before.sessions, args.START)) =>
                    (AppendedOne /\ open_session = Some(Len(sessions) - 1))

C9_Witness ==
    /\ ResumeCall
    /\ args.INDEX = NoIndex
    /\ Len(Before.sessions) = 2
    /\ Before.sessions[1].description # Before.sessions[2].description
    /\ Before.sessions[2].start # Some(now)
    /\ AppendedOne
    /\ NewSession.description = Before.sessions[2].description
    /\ saved

----------------------------------------------------------------------------
(* C10 *)

----------------------------------------------------------------------------
(* C11 *)

ReportRun == Ran /\ args.op = "report"

\* C11: the tool invoked with no arguments prints the open-session notice
\* whenever the ledger is Open, at whatever position the open session is
\* (position 0 included), followed by the full render; on an empty ledger it
\* prints "No sessions.".
C11_ReportShowsOpenNotice ==
    ReportRun =>
        /\ IsOpen(Before) =>
              /\ Said("Open session:")
              /\ Said("<SESSIONS>")
        /\ Len(Before.sessions) = 0 => Said("No sessions.")

\* The notice as the code prints it: for an open session at a position other
\* than 0.
ReportNoticeUnlessFirst ==
    (ReportRun /\ IsOpen(Before) /\ ValidIndex(Before.sessions, Val(Before.open_session))
        /\ Val(Before.open_session) # 0) =>
        /\ Said("Open session:")
        /\ Said("<SESSIONS>")

----------------------------------------------------------------------------
(* C12 *)

CancelRun == Ran /\ args.op = "cancel"

\* C12: cancel on an Open ledger removes exactly the open session (the one
\* with absent end) and nothing else: the ledger is Idle afterwards and the
\* other sessions are as they were, in the same order; cancel on an Idle
\* ledger changes nothing and says that there is no session to cancel.
C12_CancelRemovesOpen ==
    CancelRun =>
        /\ IsOpen(Before) =>
              /\ exc = ""
              /\ IsIdle(After)
              /\ \E p \in 1..Len(Before.sessions) :
                    /\ Before.sessions[p].end = None
                    /\ sessions = DelAt(Before.sessions, p)
        /\ IsIdle(Before) =>
              /\ Unchanged
              /\ Said("No session to cancel.")

\* What cancel does with the index it finds: the session open_session names
\* is removed, whether or not it is the one with absent end.
CancelRemovesIndexed ==
    (CancelRun /\ IsOpen(Before)
        /\ ValidIndex(Before.sessions, Val(Before.open_session))) =>
        /\ exc = ""
        /\ IsIdle(After)
        /\ sessions = DelAt(Before.sessions,
                            Pos(Before.sessions, Val(Before.open_session)))

----------------------------------------------------------------------------
(* C13 *)

ClearRun == Ran /\ args.op = "clear"

\* C13: from any ledger, clear leaves zero sessions and the ledger Idle, the
\* render directly afterwards is empty, and the count the run reports is the
\* number of sessions the ledger held before.
C13_ClearEmpties ==
    ClearRun =>
        /\ exc = ""
        /\ sessions = <<>>
        /\ IsIdle(After)
        /\ SessionsStr(sessions) = <<>>
        /\ out.msgs[Len(out.msgs)] = MsgN("sessions cleared.", Len(Before.sessions))
        /\ saved
        /\ Stored = Sessions(<<>>, None)

C13_Witness ==
    /\ ClearRun
    /\ Len(Before.sessions) = 3
    /\ IsOpen(Before)
    /\ sessions = <<>>
    /\ IsIdle(After)
    /\ Said("sessions cleared.")

----------------------------------------------------------------------------
(* C14 *)

LogRun == Ran /\ args.op = "description" /\ args.END.kind # "none"

\* A time argument the ledger gives a timestamp for: "now", "HH:MM", or
\* "last" on a ledger where some session has an end.
Defined(ss, tok) ==
    \/ tok.kind \in {"now", "hhmm"}
    \/ tok.kind = "last" /\ PresentEnds(ss) # {}

\* C14: log(start_time, end_time, description) succeeds on an Idle and on an
\* Open ledger alike: it appends exactly one session, with start and end both
\* present, and leaves open_index and the sessions that were there unchanged.
C14_LogAppendsClosed ==
    (LogRun /\ Defined(Before.sessions, args.START)
            /\ Defined(Before.sessions, args.END)) =>
        /\ exc = ""
        /\ AppendedOne
        /\ NewSession.start # None
        /\ NewSession.end # None
        /\ NewSession.description = args.DESCRIPTION
        /\ open_session = Before.open_session

\* The frame of log: whatever the time arguments, open_session stays and the
\* sessions that were there stay; with times that need no scan of the ledger
\* the session is appended, closed.
LogLeavesOthers ==
    LogRun =>
        /\ open_session = Before.open_session
        /\ Unchanged \/ AppendedOne
        /\ (args.START.kind \in {"now", "hhmm"} /\ args.END.kind \in {"now", "hhmm"}) =>
              /\ exc = ""
              /\ AppendedOne
              /\ NewSession.start # None
              /\ NewSession.end # None

----------------------------------------------------------------------------
(* C15 *)

AmendRun == Ran /\ args.op = "amend"

AmendIndex == IF args.INDEX = NoIndex THEN 0 - 1 ELSE Val(args.INDEX)

----------------------------------------------------------------------------
(* C16 *)

StartsPresent(ss) == \A i \in 1..Len(ss) : ss[i].start # None

\* C16: every session of the ledger has its start present after any sequence
\* of start, log and resume operations with the accepted time tokens ("now",
\* "last", "HH:MM"), on an empty ledger too.  Stated of the ledger a start,
\* log or resume run leaves in memory.
C16_StartAlwaysPresent ==
    ((StartRun \/ LogRun \/ ResumeRun)
        /\ args.START.kind # "bad" /\ args.END.kind # "bad") =>
        StartsPresent(sessions)

\* A session without start never reaches the file: the render that follows
\* the operation raises on it and the run ends before save.
StoredStartsPresent == StartsPresent(Stored.sessions)

----------------------------------------------------------------------------
(* C17 *)

BadToken(tok) == tok.kind = "bad"

\* A run of an operation that takes time arguments, given a malformed one.
BadTokenRun ==
    /\ StartRun \/ LogRun \/ CloseRun \/ ResumeRun
    /\ BadToken(args.START) \/ BadToken(args.END) \/ BadToken(args.ENDTIME)

\* C17: a time token that is neither "now", "last" nor a valid HH:MM is an
\* error: the start, close, log or resume that is given one aborts, and it
\* does so before any mutation, with sessions and open_index as they were.
C17_BadTokenAborts ==
    BadTokenRun =>
        /\ exc # ""
        /\ ~saved
        /\ Unchanged

\* What the code does with a malformed token: nothing is ever changed; the
\* format error is raised where the token is resolved (start on an Idle
\* ledger, close on an Open one, log's first argument); the run ends without
\* an error only where the operation returns before looking at the token
\* (close on an Idle ledger, resume on an empty one).
BadTokenNoMutation ==
    BadTokenRun =>
        /\ Unchanged
        /\ Stored = Before
        /\ (StartRun /\ IsIdle(Before)) => exc = "ValueError"
        /\ (CloseRun /\ IsOpen(Before)
               /\ ValidIndex(Before.sessions, Val(Before.open_session))) =>
              exc = "ValueError"
        /\ (LogRun /\ BadToken(args.START)) => exc = "ValueError"
        /\ exc = "" =>
              \/ CloseRun /\ IsIdle(Before) /\ Said("No session to close.")
              \/ ResumeRun /\ Len(Before.sessions) = 0 /\ Said("No session to resume.")

----------------------------------------------------------------------------
(* C18 *)

\* A closed session and its rendering.
RenderedClosed == pc = "rendered" /\ sessions[1].end # None
Rendered == out.msgs[1]
StartOf == Val(sessions[1].start)
EndOf == Val(sessions[1].end)

\* The end is rendered with its date: "<day> <month> HH:MM:SS".
EndWithDate ==
    /\ Rendered.end.kind = "date"
    /\ Rendered.end.day = DayOfMonth(EndOf)
    /\ Rendered.end.month = Month(EndOf)
    /\ Rendered.end.time = Tod(EndOf)

\* The end is rendered as the bare time of day: "HH:MM:SS".
EndBare ==
    /\ Rendered.end.kind = "time"
    /\ Rendered.end.time = Tod(EndOf)

\* C18: a closed session is rendered with the date (day and month) of its
\* end whenever the end falls on another calendar day than the start, for
\* every pair of dates, those in different months with the same day of the
\* month included, and with the bare time of day only when start and end
\* are on the same calendar day.
C18_RenderEndDate ==
    RenderedClosed =>
        IF Day(StartOf) # Day(EndOf) THEN EndWithDate ELSE EndBare

\* The rendering as the code decides it: by the day of the month alone.
RenderEndByDayOfMonth ==
    RenderedClosed =>
        IF DayOfMonth(StartOf) # DayOfMonth(EndOf) THEN EndWithDate ELSE EndBare

----------------------------------------------------------------------------
(* C19 *)

OpenIndexInRange(L) ==
    IsOpen(L) => (0 <= Val(L.open_session) /\ Val(L.open_session) < Len(L.sessions))

\* The close run that set an end.
Closed == CloseRun /\ exc = "" /\ ~Said("No session to close.")

\* C19: in every reachable ledger, in memory at the end of a run and in the
\* file, open_index if set satisfies 0 <= open_index < number of sessions,
\* also after remove(index) for the negative indices the list accepts; and a
\* close only ever sets the end of a session whose end was absent.
C19_OpenIndexInRange ==
    /\ OpenIndexInRange(Stored)
    /\ pc = "done" => OpenIndexInRange(After)
    /\ Closed => Before.sessions[Pos(Before.sessions, Val(Before.open_session))].end = None

\* remove(index) with an index from 0 keeps a well-placed open_session well
\* placed: in range, and on the session with absent end.
RemoveFromZeroKeepsOpen ==
    (DeleteRun /\ Val(args.INDEX) >= 0 /\ LedgerInvariant(Before)
        /\ OpenIndexInRange(Before)) =>
        /\ OpenIndexInRange(After)
        /\ LedgerInvariant(After)

----------------------------------------------------------------------------
(* C20 *)

\* C20: over any sequence of runs, those that abort before save included,
\* the storage file is absent or holds a complete pickled ledger, so that the
\* load of the next run succeeds; a first run that fails after load created
\* the file does not keep later runs from loading.
C20_StorageAlwaysLoadable ==
    /\ file.kind \in {"absent", "pickle"}
    /\ pc = "done" => exc # "EOFError"

\* A ledger once pickled stays: only a run that reaches save replaces it, by
\* the ledger that run ends with.
PersistedLedgerSurvives ==
    [][file.kind = "pickle" =>
          /\ file'.kind = "pickle"
          /\ file' # file => (saved' /\ file' = Pickle(Sessions(sessions', open_session')))]_vars

====
